---- MODULE Spec2Model ----
(***************************************************************************)
(* Request handlers of app/routes.py (Flask blueprint `api`) over the      *)
(* Flask-SQLAlchemy unit of work.                                          *)
(*                                                                         *)
(* The shared store holds the tables Report, NewsArticle and AdminLog.     *)
(* Every request runs in a session of its own (Flask-SQLAlchemy scopes     *)
(* db.session to the request), so a handler is a short sequence of steps   *)
(* that other requests may interleave with:                                *)
(*   1. the decorator, the lookup (get_or_404), the validation and the     *)
(*      assignments to the loaded object; only the lookup reads the store; *)
(*   2. db.session.commit(): the flush of the session's pending changes    *)
(*      and inserts in one transaction;                                    *)
(*   3. for the handlers that serialise an ORM object after the commit     *)
(*      (schema.dump(obj)): the reload of the object, which commit expired.*)
(* A handler that answers without writing is one step.                     *)
(***************************************************************************)
EXTENDS Integers, Sequences, FiniteSets, Bags, TLC

VARIABLES
    reports,     \* table Report: sequence of rows, a row's id is its index
    news,        \* table NewsArticle: function id -> row, over the ids present
    nextNewsId,  \* the autoincrement counter of NewsArticle.id
    adminLogs,   \* table AdminLog: sequence of rows in insertion order
    sess,        \* the requests in flight: a bag of their db.sessions and positions
    resp         \* the response sent by the last step (NoResp: none was sent)

vars == <<reports, news, nextNewsId, adminLogs, sess, resp>>

----------------------------------------------------------------------------
(* Bounds of the model. *)

MaxReports == 1   \* rows of Report that may be created
MaxNews == 1      \* rows of NewsArticle that may be created
MaxLogs == 3      \* rows of AdminLog that may be written

Slots == {"s1", "s2"}   \* the workers: as many requests may be in flight together

----------------------------------------------------------------------------
(* Users and the auth gate (app/auth.py, app/models.py). *)

NoUser == "anonymous"          \* no credential, or one that does not verify
Users == {"alice", "bob", "root"}
Callers == Users \cup {NoUser}
AdminCallers == {"root", "alice", NoUser}  \* callers of the /admin routes

IsAdmin(u) == u = "root"

Passed == 0

token_required(caller) == IF caller = NoUser THEN 401 ELSE Passed

admin_required(caller) ==
    IF caller = NoUser THEN 401
    ELSE IF ~IsAdmin(caller) THEN 403
    ELSE Passed


(* Mutant: verify_report decorated with @token_required. *)
RouteGuard_verifyTokenOnly(op) ==
    CASE op \in {"create_news_article", "update_news_article",
                 "delete_news_article", "get_all_users",
                 "reject_report"} -> "admin_required"
      [] op \in {"create_report", "get_reports", "get_my_reports",
                 "verify_report"} -> "token_required"
      [] OTHER -> "none"

(* A route's decorator: @admin_required, @token_required or none. *)
RouteGuard(op) ==
    CASE op \in {"create_news_article", "update_news_article",
                 "delete_news_article", "get_all_users",
                 "verify_report", "reject_report"} -> "admin_required"
      [] op \in {"create_report", "get_reports", "get_my_reports"} -> "token_required"
      [] OTHER -> "none"

Gate(op, caller) ==
    CASE RouteGuard(op) = "admin_required" -> admin_required(caller)
      [] RouteGuard(op) = "token_required" -> token_required(caller)
      [] OTHER -> Passed

----------------------------------------------------------------------------
(* JSON values of a request body, and the validation schemas               *)
(* (app/schemas.py: marshmallow).                                          *)

(* A value that is neither of these, such as "num:123", is a JSON number. *)
JsonNull == "null"
JsonBools == {"true", "false"}
JsonStrings == {"t1", "t2", "c1", "c2", "d1", "l1", "s1", "k1"}

ReportSchema ==
    [required |-> {"title", "description"},
     strings  |-> {"title", "description", "location"},
     bools    |-> {"is_anonymous"},
     nullable |-> {"location"}]

NewsArticleSchema ==
    [required |-> {"title", "content"},
     strings  |-> {"title", "content", "source", "read_more_link"},
     bools    |-> {},
     nullable |-> {"source", "read_more_link"}]

SchemaFields(schema) == schema.strings \cup schema.bools

(* The message marshmallow gives for field f of the body, "" when it has none. *)
FieldError(schema, json, partial, f) ==
    IF f \notin DOMAIN json
    THEN IF f \in schema.required /\ ~partial
         THEN "Missing data for required field." ELSE ""
    ELSE IF f \notin SchemaFields(schema) THEN "Unknown field."
    ELSE IF json[f] = JsonNull
         THEN IF f \in schema.nullable THEN "" ELSE "Field may not be null."
    ELSE IF f \in schema.strings
         THEN IF json[f] \in JsonStrings THEN "" ELSE "Not a valid string."
    ELSE IF json[f] \in JsonBools THEN "" ELSE "Not a valid boolean."

(* schema.load(json, partial): the field -> message mapping of ValidationError, *)
(* empty when the body is valid (load then returns the body's fields).        *)
Validate(schema, json, partial) ==
    LET bad == {f \in SchemaFields(schema) \cup DOMAIN json :
                    FieldError(schema, json, partial, f) # ""}
    IN [f \in bad |-> FieldError(schema, json, partial, f)]

NoErrors == [f \in {} |-> ""]

(* data.get(key, default) *)
Get(data, key, default) == IF key \in DOMAIN data THEN data[key] ELSE default

----------------------------------------------------------------------------
(* Requests the model sends. *)

(* POST /reports: <<caller, body>> *)
ReportRequests ==
    { <<"alice", [title |-> "t1", description |-> "d1"]>>,
      <<"bob", [title |-> "t1", description |-> "d1", location |-> "l1",
                is_anonymous |-> "true"]>>,
      <<"alice", [description |-> "d1"]>>,
      <<"bob", [title |-> "num:123", description |-> "d1"]>>,
      <<NoUser, [title |-> "t1", description |-> "d1"]>> }

(* POST /admin/news: bodies *)
NewsPayloads ==
    { [title |-> "t1", content |-> "c1", source |-> "s1"],
      [content |-> "c1"] }

(* PUT /admin/news/<id>: bodies *)
NewsUpdatePayloads ==
    { [title |-> "t1"],
      [title |-> "t2"],
      [content |-> "c2"],
      [title |-> "num:123"] }

ReportIds == 1 .. (MaxReports + 1)
NewsIds == 1 .. (MaxNews + 1)

----------------------------------------------------------------------------
(* Sessions and responses. *)

NoRow == [f \in {} |-> ""]

NoResp ==
    [op |-> "none", user |-> NoUser, id |-> 0, status |-> 0,
     ops |-> {}, committed |-> FALSE, body |-> NoRow]

Response(op, caller, id, status, ops, committed, body) ==
    [op |-> op, user |-> caller, id |-> id, status |-> status,
     ops |-> ops, committed |-> committed, body |-> body]

InFlight == BagToSet(sess)

Loaded == {x \in InFlight : x.pc = "loaded"}

(* Every worker is idle. *)
Quiet == sess = EmptyBag

(* Room for the AdminLog row of one more administrative request. *)
CanLog ==
    Len(adminLogs) + BagCardinality([x \in Loaded |-> sess[x]]) < MaxLogs

(* A handler answers in its first step, having written nothing.  The answer *)
(* depends on the store alone, and every state of the store is reached with *)
(* every worker idle, so the model sends such a request to an idle server.  *)
Answer(r) ==
    /\ Quiet
    /\ resp' = r
    /\ UNCHANGED <<reports, news, nextNewsId, adminLogs, sess>>

(* The handler goes on in a session of its own. *)
Open(session) ==
    /\ BagCardinality(sess) < Cardinality(Slots)
    /\ sess' = sess (+) SetToBag({session})
    /\ resp' = NoResp

(* The session moves on: the request is at `session` now. *)
Move(x, session) ==
    /\ sess' = (sess (-) SetToBag({x})) (+) SetToBag({session})
    /\ resp' = NoResp

(* The request is answered and its session removed. *)
Close(x, r) ==
    /\ sess' = sess (-) SetToBag({x})
    /\ resp' = r

(* The decorator answers before the view function is given its arguments. *)
Denied(op, caller) ==
    Response(op, caller, 0, Gate(op, caller), {}, FALSE, NoRow)

AdminLog(admin_id, verb, id, title) ==
    [admin_id |-> admin_id, verb |-> verb, id |-> id, title |-> title]

ReportDefaultStatus == "Pending"


(* A request in flight: its position, the route and its arguments, and    *)
(* the session's object as loaded (snap) and as the handler left it (obj). *)
Session(pc, op, caller, id, data, snap, obj) ==
    [pc |-> pc, op |-> op, user |-> caller, id |-> id, data |-> data,
     snap |-> snap, obj |-> obj]

----------------------------------------------------------------------------
(* The unit of work of db.session (SQLAlchemy).                            *)

(* The attributes of a loaded object whose value differs from the value   *)
(* loaded: the only columns the flush puts in its UPDATE.  An assignment *)
(* of the value the object already has leaves no net change.              *)
Dirty(obj, snap) == {f \in DOMAIN obj : obj[f] # snap[f]}

(* The row after UPDATE ... SET <dirty columns> WHERE id = ... *)
Flush(row, obj, snap) ==
    [f \in DOMAIN row |-> IF f \in Dirty(obj, snap) THEN obj[f] ELSE row[f]]

(* Model.query.get_or_404(id) finds a row. *)
ReportExists(id) == id \in 1 .. Len(reports)
NewsExists(id) == id \in DOMAIN news

----------------------------------------------------------------------------
(* Read-only handlers. *)

home_summary ==
    Answer(Response("home_summary", NoUser, 0, 200, {"query"}, FALSE,
                    [reportsCount |-> Len(reports),
                     newsCount |-> Cardinality(DOMAIN news)]))

get_reports(caller) ==
    IF Gate("get_reports", caller) # Passed
    THEN Answer(Denied("get_reports", caller))
    ELSE Answer(Response("get_reports", caller, 0, 200, {"query"}, FALSE,
                         {i \in 1 .. Len(reports) : TRUE}))

(* Mutant: the filter_by(user_id=current_user.id) is left out. *)
get_my_reports_unfiltered(caller) ==
    IF Gate("get_my_reports", caller) # Passed
    THEN Answer(Denied("get_my_reports", caller))
    ELSE Answer(Response("get_my_reports", caller, 0, 200, {"query"}, FALSE,
                         {i \in 1 .. Len(reports) : TRUE}))

get_my_reports(caller) ==
    IF Gate("get_my_reports", caller) # Passed
    THEN Answer(Denied("get_my_reports", caller))
    ELSE Answer(Response("get_my_reports", caller, 0, 200, {"query"}, FALSE,
                         {i \in 1 .. Len(reports) : reports[i].user_id = caller}))

get_news_articles ==
    Answer(Response("get_news_articles", NoUser, 0, 200, {"query"}, FALSE,
                    DOMAIN news))

get_all_users(caller) ==
    IF Gate("get_all_users", caller) # Passed
    THEN Answer(Denied("get_all_users", caller))
    ELSE Answer(Response("get_all_users", caller, 0, 200, {"query"}, FALSE, Users))

----------------------------------------------------------------------------
(* POST /reports *)

(* Mutant: an anonymous report is stored without its author. *)
NewReport_anonymousNoAuthor(data, current_user) ==
    [title |-> data["title"],
     description |-> data["description"],
     location |-> Get(data, "location", JsonNull),
     is_anonymous |-> Get(data, "is_anonymous", "false"),
     user_id |-> IF Get(data, "is_anonymous", "false") = "true"
                 THEN NoUser ELSE current_user,
     status |-> ReportDefaultStatus]

NewReport(data, current_user) ==
    [title |-> data["title"],
     description |-> data["description"],
     location |-> Get(data, "location", JsonNull),
     is_anonymous |-> Get(data, "is_anonymous", "false"),
     user_id |-> current_user,
     status |-> ReportDefaultStatus]

create_report(caller, json) ==
    LET errors == Validate(ReportSchema, json, FALSE) IN
    IF Gate("create_report", caller) # Passed
    THEN Answer(Denied("create_report", caller))
    ELSE IF errors # NoErrors
    THEN Answer(Response("create_report", caller, 0, 400, {}, FALSE, errors))
    ELSE /\ Len(reports) < MaxReports
         /\ reports' = Append(reports, NewReport(json, caller))
         /\ Open(Session("committed", "create_report", caller,
                         Len(reports) + 1, json, NoRow, NoRow))
         /\ UNCHANGED <<news, nextNewsId, adminLogs>>

(* return jsonify(report_schema.dump(new_report)), 201 *)
create_report_return(x) ==
    /\ x.pc = "committed"
    /\ x.op = "create_report"
    /\ Close(x, Response("create_report", x.user, x.id, 201,
                         {"insert", "commit", "refresh"}, TRUE,
                         reports[x.id]))
    /\ UNCHANGED <<reports, news, nextNewsId, adminLogs>>

----------------------------------------------------------------------------
(* POST /admin/news *)

NewArticle(data, current_user) ==
    [title |-> data["title"],
     content |-> data["content"],
     source |-> Get(data, "source", JsonNull),
     read_more_link |-> Get(data, "read_more_link", JsonNull),
     author_id |-> current_user]

create_news_article(caller, json) ==
    LET errors == Validate(NewsArticleSchema, json, FALSE) IN
    IF Gate("create_news_article", caller) # Passed
    THEN Answer(Denied("create_news_article", caller))
    ELSE IF errors # NoErrors
    THEN Answer(Response("create_news_article", caller, 0, 400, {}, FALSE, errors))
    ELSE /\ nextNewsId <= MaxNews
         /\ CanLog
         /\ news' = [i \in DOMAIN news \cup {nextNewsId} |->
                        IF i = nextNewsId THEN NewArticle(json, caller) ELSE news[i]]
         /\ nextNewsId' = nextNewsId + 1
         /\ adminLogs' = Append(adminLogs,
                                AdminLog(caller, "Created news article", 0, json["title"]))
         /\ Open(Session("committed", "create_news_article", caller,
                         nextNewsId, json, NoRow, NoRow))
         /\ UNCHANGED reports

(* return jsonify(news_article_schema.dump(new_article)), 201: the commit *)
(* expired new_article, dump reloads it and fails when its row is gone.   *)
create_news_article_return(x) ==
    /\ x.pc = "committed"
    /\ x.op = "create_news_article"
    /\ Close(x, IF NewsExists(x.id)
                THEN Response("create_news_article", x.user, x.id, 201,
                              {"insert", "log", "commit", "refresh"}, TRUE,
                              news[x.id])
                ELSE Response("create_news_article", x.user, x.id, 500,
                              {"insert", "log", "commit", "refresh"}, TRUE,
                              "ObjectDeletedError"))
    /\ UNCHANGED <<reports, news, nextNewsId, adminLogs>>


----------------------------------------------------------------------------
(* PUT /admin/news/<id> *)

(* article.f = data.get(f, article.f), for the four fields *)
Merge(article, data) ==
    [article EXCEPT !.title = Get(data, "title", article.title),
                    !.content = Get(data, "content", article.content),
                    !.source = Get(data, "source", article.source),
                    !.read_more_link = Get(data, "read_more_link", article.read_more_link)]

(* Mutant: the body is merged without schema.load. *)
update_news_article_unvalidated(caller, id, json) ==
    IF Gate("update_news_article", caller) # Passed
    THEN Answer(Denied("update_news_article", caller))
    ELSE IF ~NewsExists(id)
    THEN Answer(Response("update_news_article", caller, id, 404, {"lookup"}, FALSE,
                         "Not Found"))
    ELSE /\ CanLog
         /\ Open(Session("loaded", "update_news_article", caller, id, json,
                         news[id], Merge(news[id], json)))
         /\ UNCHANGED <<reports, news, nextNewsId, adminLogs>>

update_news_article(caller, id, json) ==
    LET errors == Validate(NewsArticleSchema, json, TRUE) IN
    IF Gate("update_news_article", caller) # Passed
    THEN Answer(Denied("update_news_article", caller))
    ELSE IF ~NewsExists(id)
    THEN Answer(Response("update_news_article", caller, id, 404, {"lookup"}, FALSE,
                         "Not Found"))
    ELSE IF errors # NoErrors
    THEN Answer(Response("update_news_article", caller, id, 400, {"lookup"}, FALSE,
                         errors))
    ELSE /\ CanLog
         /\ Open(Session("loaded", "update_news_article", caller, id, json,
                         news[id], Merge(news[id], json)))
         /\ UNCHANGED <<reports, news, nextNewsId, adminLogs>>

(* db.session.add(log); db.session.commit(): the UPDATE of the dirty columns  *)
(* and the INSERT of the log in one transaction.  An UPDATE that matches no   *)
(* row raises StaleDataError and the transaction is rolled back.              *)
update_news_article_commit(x) ==
    LET id == x.id
        obj == x.obj
        snap == x.snap
    IN /\ x.pc = "loaded"
       /\ x.op = "update_news_article"
       /\ IF Dirty(obj, snap) # {} /\ ~NewsExists(id)
          THEN /\ Close(x, Response("update_news_article", x.user, id, 500,
                                    {"lookup", "update", "log"}, FALSE,
                                    "StaleDataError"))
               /\ UNCHANGED <<reports, news, nextNewsId, adminLogs>>
          ELSE /\ news' = IF NewsExists(id)
                          THEN [news EXCEPT ![id] = Flush(@, obj, snap)]
                          ELSE news
               /\ adminLogs' = Append(adminLogs,
                      AdminLog(x.user, "Updated news article", id, obj.title))
               /\ Move(x, [x EXCEPT !.pc = "committed"])
               /\ UNCHANGED <<reports, nextNewsId>>

(* return jsonify(news_article_schema.dump(article)), 200 *)
update_news_article_return(x) ==
    /\ x.pc = "committed"
    /\ x.op = "update_news_article"
    /\ Close(x, IF NewsExists(x.id)
                THEN Response("update_news_article", x.user, x.id, 200,
                              {"lookup", "update", "log", "commit", "refresh"}, TRUE,
                              news[x.id])
                ELSE Response("update_news_article", x.user, x.id, 500,
                              {"lookup", "update", "log", "commit", "refresh"}, TRUE,
                              "ObjectDeletedError"))
    /\ UNCHANGED <<reports, news, nextNewsId, adminLogs>>

----------------------------------------------------------------------------
(* DELETE /admin/news/<id> *)

(* Mutant: query.get(id) for get_or_404(id): a missing article counts as deleted. *)
delete_news_article_lenient(caller, id) ==
    IF Gate("delete_news_article", caller) # Passed
    THEN Answer(Denied("delete_news_article", caller))
    ELSE IF ~NewsExists(id)
    THEN Answer(Response("delete_news_article", caller, id, 200, {"lookup"}, FALSE,
                         "None"))
    ELSE /\ CanLog
         /\ Open(Session("loaded", "delete_news_article", caller, id, NoRow,
                         news[id], news[id]))
         /\ UNCHANGED <<reports, news, nextNewsId, adminLogs>>

delete_news_article(caller, id) ==
    IF Gate("delete_news_article", caller) # Passed
    THEN Answer(Denied("delete_news_article", caller))
    ELSE IF ~NewsExists(id)
    THEN Answer(Response("delete_news_article", caller, id, 404, {"lookup"}, FALSE,
                         "Not Found"))
    ELSE /\ CanLog
         /\ Open(Session("loaded", "delete_news_article", caller, id, NoRow,
                         news[id], news[id]))
         /\ UNCHANGED <<reports, news, nextNewsId, adminLogs>>

(* db.session.delete(article); db.session.add(log); db.session.commit().   *)
(* A DELETE that matches no row only warns.                                *)
delete_news_article_commit(x) ==
    LET id == x.id
        article_title == x.snap.title
    IN /\ x.pc = "loaded"
       /\ x.op = "delete_news_article"
       /\ news' = [i \in DOMAIN news \ {id} |-> news[i]]
       /\ adminLogs' = Append(adminLogs,
              AdminLog(x.user, "Deleted news article", id, article_title))
       /\ Close(x, Response("delete_news_article", x.user, id, 200,
                            {"lookup", "delete", "log", "commit"}, TRUE,
                            article_title))
       /\ UNCHANGED <<reports, nextNewsId>>

----------------------------------------------------------------------------
(* PUT /admin/reports/verify/<id>, PUT /admin/reports/reject/<id> *)

(* Mutant: the handler also sets the report's anonymity flag. *)
SetStatus_anonymises(op, status, caller, id) ==
    IF Gate(op, caller) # Passed
    THEN Answer(Denied(op, caller))
    ELSE IF ~ReportExists(id)
    THEN Answer(Response(op, caller, id, 404, {"lookup"}, FALSE, "Not Found"))
    ELSE /\ CanLog
         /\ Open(Session("loaded", op, caller, id, NoRow,
                         reports[id],
                         [reports[id] EXCEPT !.status = status, !.is_anonymous = "true"]))
         /\ UNCHANGED <<reports, news, nextNewsId, adminLogs>>

SetStatus(op, status, caller, id) ==
    IF Gate(op, caller) # Passed
    THEN Answer(Denied(op, caller))
    ELSE IF ~ReportExists(id)
    THEN Answer(Response(op, caller, id, 404, {"lookup"}, FALSE, "Not Found"))
    ELSE /\ CanLog
         /\ Open(Session("loaded", op, caller, id, NoRow,
                         reports[id], [reports[id] EXCEPT !.status = status]))
         /\ UNCHANGED <<reports, news, nextNewsId, adminLogs>>

SetStatusCommit(x, op, verb) ==
    LET id == x.id
        obj == x.obj
        snap == x.snap
    IN /\ x.pc = "loaded"
       /\ x.op = op
       /\ reports' = [reports EXCEPT ![id] = Flush(@, obj, snap)]
       /\ adminLogs' = Append(adminLogs, AdminLog(x.user, verb, id, obj.title))
       /\ Close(x, Response(op, x.user, id, 200,
                            {"lookup", "update", "log", "commit"}, TRUE, id))
       /\ UNCHANGED <<news, nextNewsId>>

verify_report(caller, id) == SetStatus("verify_report", "Verified", caller, id)

verify_report_commit(x) == SetStatusCommit(x, "verify_report", "Verified report")

reject_report(caller, id) == SetStatus("reject_report", "Rejected", caller, id)

reject_report_commit(x) == SetStatusCommit(x, "reject_report", "Rejected report")

----------------------------------------------------------------------------

Init ==
    /\ reports = <<>>
    /\ news = [i \in {} |-> NoRow]
    /\ nextNewsId = 1
    /\ adminLogs = <<>>
    /\ sess = EmptyBag
    /\ resp = NoResp

Next ==
    \/ home_summary
    \/ \E r \in ReportRequests : create_report(r[1], r[2])
    \/ \E x \in InFlight : create_report_return(x)
    \/ \E c \in Callers : get_reports(c)
    \/ \E c \in Callers : get_my_reports(c)
    \/ get_news_articles
    \/ \E c \in AdminCallers, j \in NewsPayloads : create_news_article(c, j)
    \/ \E x \in InFlight : create_news_article_return(x)
    \/ \E c \in AdminCallers, i \in NewsIds, j \in NewsUpdatePayloads :
          update_news_article(c, i, j)
    \/ \E x \in InFlight : update_news_article_commit(x)
    \/ \E x \in InFlight : update_news_article_return(x)
    \/ \E c \in AdminCallers, i \in NewsIds : delete_news_article(c, i)
    \/ \E x \in InFlight : delete_news_article_commit(x)
    \/ \E c \in AdminCallers : get_all_users(c)
    \/ \E c \in AdminCallers, i \in ReportIds : verify_report(c, i)
    \/ \E x \in InFlight : verify_report_commit(x)
    \/ \E c \in AdminCallers, i \in ReportIds : reject_report(c, i)
    \/ \E x \in InFlight : reject_report_commit(x)

Spec == Init /\ [][Next]_vars


----------------------------------------------------------------------------
(* What a step did, for the properties below. *)

AdminRoutes ==
    {"create_news_article", "update_news_article", "delete_news_article",
     "get_all_users", "verify_report", "reject_report"}

NewsFields == {"title", "content", "source", "read_more_link"}

(* The step appended exactly one row to AdminLog. *)
LogAppended ==
    /\ Len(adminLogs') = Len(adminLogs) + 1
    /\ SubSeq(adminLogs', 1, Len(adminLogs)) = adminLogs

LastLog == adminLogs'[Len(adminLogs')]

(* The step changed the status of a stored report. *)
StatusChanged(i) == i <= Len(reports') /\ reports'[i].status # reports[i].status

(* The step changed table NewsArticle or the status of a report. *)
Mutated == news' # news \/ \E i \in 1 .. Len(reports) : StatusChanged(i)

(* The step wrote nothing. *)
StoreUnchanged == UNCHANGED <<reports, news, nextNewsId, adminLogs>>

(* The step answered a request that opened no session. *)
AnsweredAtOnce == resp' # NoResp /\ sess' = sess

----------------------------------------------------------------------------
(* C1: AdminLog rows and administrative mutations are committed together,  *)
(* one row per mutation: a step that changes NewsArticle or a report's      *)
(* status appends exactly one AdminLog row, an AdminLog row is written only *)
(* by the commit of a request in flight, and a request answered with a      *)
(* failure has committed nothing.                                           *)
C1_AuditOneToOne ==
    [][ /\ Mutated => LogAppended
        /\ adminLogs' # adminLogs => LogAppended /\ sess' # sess
        /\ resp'.status >= 400 => ~resp'.committed ]_vars

(* C1, the part the code keeps: the mutation and its AdminLog row become    *)
(* visible in one step, and a rolled back commit leaves the store as it was. *)
C1_CommitAtomic ==
    [][ /\ Mutated => LogAppended
        /\ adminLogs' # adminLogs => LogAppended /\ sess' # sess
        /\ ~resp'.committed /\ resp' # NoResp => StoreUnchanged ]_vars

----------------------------------------------------------------------------
(* C2: a resolved user who is not an administrator gets 403 from every     *)
(* /admin route before any persistence operation, and the step leaves the  *)
(* store unchanged; every change of NewsArticle or of a report's status is *)
(* logged under an administrator's id, and every article's author is one.  *)
C2_AdminOnly ==
    [][ /\ resp'.op \in AdminRoutes /\ resp'.user \in Users /\ ~IsAdmin(resp'.user)
            => resp'.status = 403 /\ resp'.ops = {} /\ StoreUnchanged /\ sess' = sess
        /\ Mutated => LogAppended /\ IsAdmin(LastLog.admin_id)
        /\ \A i \in DOMAIN news' : IsAdmin(news'[i].author_id)
        /\ \A x \in BagToSet(sess') : x.op \in AdminRoutes => IsAdmin(x.user) ]_vars

C2_Witness ==
    /\ resp.op = "verify_report" /\ resp.user = "alice" /\ resp.status = 403
    /\ Len(reports) > 0 /\ reports[1].status = "Pending"
    /\ DOMAIN news # {}

----------------------------------------------------------------------------
(* C3: a verify (reject) call by an administrator that is answered 200     *)
(* leaves the report Verified (Rejected) and has appended exactly one      *)
(* AdminLog row naming the report.                                         *)
C3_StatusAfterCall ==
    [][ \A op \in {"verify_report", "reject_report"} :
          resp'.op = op /\ resp'.status = 200 =>
            /\ reports'[resp'.id].status =
                   (IF op = "verify_report" THEN "Verified" ELSE "Rejected")
            /\ LogAppended
            /\ LastLog.id = resp'.id
            /\ LastLog.verb =
                   (IF op = "verify_report" THEN "Verified report" ELSE "Rejected report")
      ]_vars


----------------------------------------------------------------------------
(* C4: an administrator's update, delete, verify or reject of an id that   *)
(* is not in storage is answered 404 at once, writes no AdminLog row and   *)
(* leaves the store unchanged; no such request gets a session, and every   *)
(* 404 leaves the store unchanged.                                         *)
Present(op, id) ==
    IF op \in {"update_news_article", "delete_news_article"}
    THEN NewsExists(id) ELSE ReportExists(id)

LookupRoutes ==
    {"update_news_article", "delete_news_article", "verify_report", "reject_report"}

C4_NotFound ==
    [][ /\ ( /\ AnsweredAtOnce
             /\ resp'.op \in LookupRoutes
             /\ IsAdmin(resp'.user)
             /\ ~Present(resp'.op, resp'.id) )
           => resp'.status = 404 /\ StoreUnchanged
        /\ resp'.status = 404 => StoreUnchanged /\ ~resp'.committed
        /\ \A x \in BagToSet(sess') :
             x.op \in LookupRoutes /\ CopiesIn(x, sess') > CopiesIn(x, sess)
                /\ x.pc = "loaded"
             => Present(x.op, x.id) ]_vars

C4_Witness ==
    /\ resp.op = "delete_news_article" /\ resp.status = 404
    /\ resp.id < nextNewsId /\ ~NewsExists(resp.id)
    /\ Len(adminLogs) > 0

----------------------------------------------------------------------------
(* C5 as stated: in report submit, news create and news update a body that *)
(* fails validation is answered 400 with the field -> messages mapping,    *)
(* and the request has performed no persistence operation.                 *)
InvalidAnswer(op, errors, ops) ==
    /\ resp'.op = op
    /\ resp'.status = 400
    /\ resp'.body = errors
    /\ resp'.ops = ops
    /\ StoreUnchanged
    /\ sess' = sess

SubmitRejects(ops) ==
    \A r \in ReportRequests :
        ( /\ create_report(r[1], r[2])
          /\ Gate("create_report", r[1]) = Passed
          /\ Validate(ReportSchema, r[2], FALSE) # NoErrors )
        => InvalidAnswer("create_report", Validate(ReportSchema, r[2], FALSE), ops)

CreateRejects(ops) ==
    \A c \in AdminCallers, j \in NewsPayloads :
        ( /\ create_news_article(c, j)
          /\ Gate("create_news_article", c) = Passed
          /\ Validate(NewsArticleSchema, j, FALSE) # NoErrors )
        => InvalidAnswer("create_news_article", Validate(NewsArticleSchema, j, FALSE), ops)

C5_NeverReachesPersistence ==
    [][ /\ SubmitRejects({})
        /\ CreateRejects({})
        /\ \A c \in AdminCallers, i \in NewsIds, j \in NewsUpdatePayloads :
             ( /\ update_news_article(c, i, j)
               /\ Gate("update_news_article", c) = Passed
               /\ Validate(NewsArticleSchema, j, TRUE) # NoErrors )
             => InvalidAnswer("update_news_article",
                              Validate(NewsArticleSchema, j, TRUE), {}) ]_vars

(* C5 as amended: submit and create answer 400 with the mapping having     *)
(* performed no persistence operation; update has looked the article up    *)
(* first, answers 404 for an absent id whatever the body, and 400 with the *)
(* mapping for an existing id, having performed the lookup only; no 400    *)
(* has written anything.                                                   *)
C5_ValidationBeforeWrite ==
    [][ /\ SubmitRejects({})
        /\ CreateRejects({})
        /\ \A c \in AdminCallers, i \in NewsIds, j \in NewsUpdatePayloads :
             ( /\ update_news_article(c, i, j)
               /\ Gate("update_news_article", c) = Passed
               /\ Validate(NewsArticleSchema, j, TRUE) # NoErrors )
             => IF NewsExists(i)
                THEN InvalidAnswer("update_news_article",
                                   Validate(NewsArticleSchema, j, TRUE), {"lookup"})
                ELSE resp'.status = 404 /\ StoreUnchanged /\ sess' = sess
        /\ resp'.status = 400 =>
             /\ resp'.body # NoErrors
             /\ resp'.ops \subseteq {"lookup"}
             /\ ~resp'.committed
             /\ StoreUnchanged ]_vars

C5_Witness ==
    /\ resp.op = "update_news_article" /\ resp.status = 400
    /\ resp.ops = {"lookup"}
    /\ resp.body = [title |-> "Not a valid string."]
    /\ NewsExists(resp.id)

----------------------------------------------------------------------------
(* C6: a valid submission by an authenticated user appends one Report      *)
(* whose status is Pending and whose author is the submitting user,        *)
(* whatever the anonymity flag, with the body's title and description.     *)
C6_SubmitStoresPendingAuthor ==
    [][ \A r \in ReportRequests :
          ( /\ create_report(r[1], r[2])
            /\ r[1] \in Users
            /\ Validate(ReportSchema, r[2], FALSE) = NoErrors )
          => /\ reports' = Append(reports, reports'[Len(reports')])
             /\ reports'[Len(reports')].status = "Pending"
             /\ reports'[Len(reports')].user_id = r[1]
             /\ reports'[Len(reports')].title = r[2].title
             /\ reports'[Len(reports')].description = r[2].description ]_vars

C6_Witness ==
    \E i \in 1 .. Len(reports) :
        /\ reports[i].is_anonymous = "true"
        /\ reports[i].user_id = "bob"
        /\ reports[i].status = "Pending"

----------------------------------------------------------------------------
(* C7: the commit of a news update on an article that is in storage leaves *)
(* every field the body supplies at the supplied value and every field it  *)
(* omits at the value stored before the commit.                            *)
UpdateCommitted(x) ==
    /\ update_news_article_commit(x)
    /\ NewsExists(x.id)
    /\ adminLogs' # adminLogs

C7_PartialUpdate ==
    [][ \A x \in InFlight :
          UpdateCommitted(x) =>
            \A f \in NewsFields :
                news'[x.id][f] =
                    (IF f \in DOMAIN x.data THEN x.data[f] ELSE news[x.id][f]) ]_vars

(* C7 holds of an update that no other request overtook: the article is as *)
(* the handler loaded it.                                                  *)
C7_PartialUpdateUndisturbed ==
    [][ \A x \in InFlight :
          UpdateCommitted(x) /\ news[x.id] = x.snap =>
            \A f \in NewsFields :
                news'[x.id][f] =
                    (IF f \in DOMAIN x.data THEN x.data[f] ELSE news[x.id][f]) ]_vars

----------------------------------------------------------------------------
(* C8: the 200 answer of GET /my_reports to user A holds exactly the       *)
(* reports whose author is A, and the 200 answer of GET /reports holds     *)
(* every report; every authenticated user gets the 200.                    *)
C8_ListMineIsolation ==
    /\ resp.op = "get_my_reports" /\ resp.user \in Users =>
          /\ resp.status = 200
          /\ \A i \in resp.body : reports[i].user_id = resp.user
          /\ \A i \in 1 .. Len(reports) :
                reports[i].user_id = resp.user => i \in resp.body
    /\ resp.op = "get_reports" /\ resp.user \in Users =>
          /\ resp.status = 200
          /\ resp.body = 1 .. Len(reports)

C8_Witness ==
    /\ resp.op = "get_my_reports" /\ resp.user = "alice" /\ resp.status = 200
    /\ \E i \in 1 .. Len(reports) : reports[i].user_id = "bob"
    /\ resp.body = {}

----------------------------------------------------------------------------
(* C9: no step removes a report or changes a report's title, description,  *)
(* location, anonymity flag or author, and a step that changes a report's  *)
(* status is the commit of an administrator's verify or reject of it.      *)
C9_ReportFrame ==
    [][ /\ Len(reports') >= Len(reports)
        /\ \A i \in 1 .. Len(reports) :
             /\ [reports'[i] EXCEPT !.status = "any"] = [reports[i] EXCEPT !.status = "any"]
             /\ StatusChanged(i) =>
                  \E x \in InFlight :
                    /\ x.id = i
                    /\ IsAdmin(x.user)
                    /\ \/ verify_report_commit(x) /\ reports'[i].status = "Verified"
                       \/ reject_report_commit(x) /\ reports'[i].status = "Rejected" ]_vars

C9_Witness ==
    /\ \E i \in 1 .. Len(reports) :
          reports[i].status = "Rejected" /\ reports[i].is_anonymous = "true"
    /\ resp.op = "delete_news_article" /\ resp.status = 200

----------------------------------------------------------------------------
(* C10: when an update of an article commits after another update of the   *)
(* same article that was in flight with it, every field holds the value of *)
(* the last of the two commits that supplied it (a field neither supplied  *)
(* is untouched), and the two commits' AdminLog rows are both there.       *)
C10_LastWriteWinsPerField ==
    [][ \A x \in InFlight, y \in InFlight :
          ( /\ x.op = "update_news_article" /\ x.pc = "loaded"
            /\ y.op = "update_news_article" /\ y.pc = "committed"
            /\ x.id = y.id
            /\ UpdateCommitted(x) )
          => /\ \A f \in NewsFields :
                  news'[x.id][f] =
                      (IF f \in DOMAIN x.data THEN x.data[f]
                       ELSE IF f \in DOMAIN y.data THEN y.data[f]
                       ELSE news[x.id][f])
             /\ LogAppended
             /\ LastLog.verb = "Updated news article" /\ LastLog.id = x.id
             /\ adminLogs[Len(adminLogs)].verb = "Updated news article"
             /\ adminLogs[Len(adminLogs)].id = x.id ]_vars

====
